---- MODULE Spec2Model ----
(***************************************************************************)
(* A model of the ST77xx display driver of src/st7789.py (class ST7789).   *)
(*                                                                         *)
(* The driver is write-only: everything it does is visible as a sequence   *)
(* of events on its collaborators (the SPI bus, the dc / cs / reset pins   *)
(* and time.sleep_ms).  The model keeps the fields of the ST7789 object    *)
(* and, for the last public call, the events it produced ("wire"), the     *)
(* calls it made to the lower level primitives ("calls") and the exception *)
(* it raised, if any ("err").                                              *)
(*                                                                         *)
(* A call is one step up to each time.sleep_ms it makes: while it waits,   *)
(* other code (a scheduled callback, another thread) may call the driver,  *)
(* also with calls that wait themselves; "pend" holds the waiting calls.   *)
(*                                                                         *)
(* Numbers follow MicroPython: integers are unbounded, ustruct.pack        *)
(* truncates to the width of the format, bytes*n is empty for n <= 0.      *)
(***************************************************************************)
EXTENDS Integers, Sequences, FiniteSets, Bags, TLC

VARIABLES
    width, height,      \* self.width, self.height
    xstart, ystart,     \* self.xstart, self.ystart
    inversion,          \* self.inversion
    cs, reset,          \* TRUE when a pin object was given, FALSE for None
    charfb_data,        \* self.charfb_data, 8*8*2 bytes
    dc,                 \* level of the data/command pin
    wire,               \* events of the last call, in order
    calls,              \* primitive calls made so far by the last call
    err,                \* exception raised by the last call, or "none"
    ret,                \* value returned by the last call (bytes), or <<>>
    last,               \* the last call: [op, a, c, g, o]
    req,                \* a call requested but not yet run
    pend                \* the calls waiting in time.sleep_ms, a bag

vars == <<width, height, xstart, ystart, inversion, cs, reset, charfb_data,
          dc, wire, calls, err, ret, last, req, pend>>

obj == <<width, height, xstart, ystart, inversion, cs, reset>>

----------------------------------------------------------------------------
(* Bounds of the model.                                                    *)

PW == 9             \* width of the small panel
PH == 8             \* height of the small panel
OffX == 2           \* explicit xstart given to the constructor
OffY == 1           \* explicit ystart given to the constructor
Margin == 2         \* how far outside the panel the coordinates go
MaxR == 3           \* largest circle radius
MaxTxt == 2         \* longest text
TriX == 3           \* triangle vertices have x in -1..TriX
TriY == 2           \* triangle vertices have y in -1..TriY-1
MaxWaiting == 2     \* calls waiting in time.sleep_ms at a time

----------------------------------------------------------------------------
(* Commands and flags, st7789.py:18-47.                                    *)

ST77XX_SWRESET == <<1>>
ST77XX_SLPIN == <<16>>
ST77XX_SLPOUT == <<17>>
ST77XX_NORON == <<19>>
ST77XX_INVOFF == <<32>>
ST77XX_INVON == <<33>>
ST77XX_DISPON == <<41>>
ST77XX_CASET == <<42>>
ST77XX_RASET == <<43>>
ST77XX_RAMWR == <<44>>
ST77XX_COLMOD == <<58>>
ST7789_MADCTL == <<54>>

ST7789_MADCTL_MY == 128
ST7789_MADCTL_MX == 64
ST7789_MADCTL_MV == 32
ST7789_MADCTL_BGR == 8

ColorMode_65K == 80
ColorMode_16bit == 5

----------------------------------------------------------------------------
(* Python values.                                                          *)

None == -1              \* the None passed for an omitted integer argument
NoneBytes == <<-1>>     \* the None passed for an omitted bytes argument

Abs(n) == IF n < 0 THEN -n ELSE n
Min(a, b) == IF a <= b THEN a ELSE b
Max(a, b) == IF a >= b THEN a ELSE b

\* Bitwise operators on non-negative integers.
RECURSIVE BitAnd(_, _)
BitAnd(a, b) ==
    IF a = 0 \/ b = 0 THEN 0
    ELSE 2 * BitAnd(a \div 2, b \div 2) + (IF a % 2 = 1 /\ b % 2 = 1 THEN 1 ELSE 0)

RECURSIVE BitOr(_, _)
BitOr(a, b) ==
    IF a = 0 THEN b
    ELSE IF b = 0 THEN a
    ELSE 2 * BitOr(a \div 2, b \div 2) + (IF a % 2 = 1 \/ b % 2 = 1 THEN 1 ELSE 0)

Shl(a, n) == a * 2^n
Shr(a, n) == a \div 2^n

\* struct.pack(">H", v): two bytes, most significant first; MicroPython
\* keeps the low 16 bits of v.
PackH(v) == <<(v % 65536) \div 256, v % 256>>

\* struct.unpack(">H", b)[0]
UnpackH(b) == b[1] * 256 + b[2]

\* bytes * n
Repeat(b, n) == [i \in 1..(n * Len(b)) |-> b[((i - 1) % Len(b)) + 1]]

\* s[i:j] of Python for 0 <= i, on a sequence indexed from 1.
Slice(s, i, j) ==
    LET hi == Min(j, Len(s))
    IN  IF i >= hi THEN <<>> ELSE SubSeq(s, i + 1, hi)

\* s[i:j] = t of Python, for 0 <= i <= j.
SliceAssign(s, i, j, t) ==
    Slice(s, 0, Min(i, Len(s))) \o t \o Slice(s, Max(i, j), Len(s))

----------------------------------------------------------------------------
(* Events seen by the collaborators.                                       *)

PinEv(p, v) == [k |-> "pin", p |-> p, v |-> v, d |-> <<>>]
SpiEv(level, bytes) == [k |-> "spi", p |-> "spi", v |-> level, d |-> bytes]
SleepEv(ms) == [k |-> "sleep", p |-> "time", v |-> ms, d |-> <<>>]

\* A primitive call made by a drawing operation.
Call(f, a) == [f |-> f, a |-> a]

\* What an operation did: events, primitive calls, exception.
Res(w, c) == [w |-> w, c |-> c, e |-> "none"]
Raise(w, c, e) == [w |-> w, c |-> c, e |-> e]
Nothing == Res(<<>>, <<>>)
Then(r1, r2) ==
    IF r1.e # "none" THEN r1
    ELSE [w |-> r1.w \o r2.w, c |-> r1.c \o r2.c, e |-> r2.e]

----------------------------------------------------------------------------
(* ST7789.__init__, st7789.py:54-97.                                       *)

\* The offset chosen by the constructor; "xa and ya" is false for None
\* and for 0.
Offset(w, h, xa, ya) ==
    IF (xa # None /\ xa # 0) /\ (ya # None /\ ya # 0) THEN <<xa, ya>>
    ELSE IF <<w, h>> = <<128, 160>> THEN <<0, 0>>
    ELSE IF <<w, h>> = <<240, 240>> THEN <<0, 0>>
    ELSE IF <<w, h>> = <<135, 240>> THEN <<52, 40>>
    ELSE <<0, 0>>

\* bytearray(8*8*2)
ZeroBuf == [i \in 1..128 |-> 0]

\* Constructor arguments the model is run with.
Cfg(w, h, xa, ya, inv, hasCs, hasReset) ==
    [w |-> w, h |-> h, xa |-> xa, ya |-> ya, inv |-> inv,
     cs |-> hasCs, reset |-> hasReset]

SmallConfigs ==
    { Cfg(PW, PH, None, None, FALSE, TRUE, TRUE),
      Cfg(PW, PH, OffX, OffY, TRUE, TRUE, TRUE),
      Cfg(PW, PH, OffX, 0, FALSE, TRUE, TRUE),
      Cfg(PW, PH, 0, OffY, FALSE, TRUE, TRUE) }

Configs == SmallConfigs \cup {Cfg(135, 240, None, None, FALSE, TRUE, TRUE)}

\* A call: the method, its integer arguments (booleans as 0 / 1), its
\* colour bytes (background then foreground for text), its glyphs (for
\* write: the command and the data), and the
\* places where the floats of the build fall short.
TheCall(op, a, c, g, o) == [op |-> op, a |-> a, c |-> c, g |-> g, o |-> o]
NoCall == TheCall("none", <<>>, <<>>, <<>>, {})

\* A call waiting in time.sleep_ms, and how many of its events it has made.
Waiting(call, at) == [call |-> call, at |-> at]
NoPend == EmptyBag

Construct(cfg) ==
    /\ width = cfg.w
    /\ height = cfg.h
    /\ xstart = Offset(cfg.w, cfg.h, cfg.xa, cfg.ya)[1]
    /\ ystart = Offset(cfg.w, cfg.h, cfg.xa, cfg.ya)[2]
    /\ inversion = cfg.inv
    /\ cs = cfg.cs
    /\ reset = cfg.reset
    /\ charfb_data = ZeroBuf
    /\ wire = <<>>
    /\ calls = <<>>
    /\ err = "none"
    /\ ret = <<>>
    /\ last = NoCall
    /\ pend = NoPend

----------------------------------------------------------------------------
(* Color codec and transport, st7789.py:101-113.                           *)

\* color with the mask of red used for green.
color_green_mask(r, g, b) ==
    PackH(BitOr(BitOr(Shl(BitAnd(r, 248), 8), Shl(BitAnd(g, 248), 3)), Shr(b, 3)))

color(r, g, b) ==
    PackH(BitOr(BitOr(Shl(BitAnd(r, 248), 8), Shl(BitAnd(g, 252), 3)), Shr(b, 3)))

write(command, data) ==
    (IF command # NoneBytes THEN <<PinEv("dc", 0), SpiEv(0, command)>> ELSE <<>>)
    \o (IF data # NoneBytes THEN <<PinEv("dc", 1), SpiEv(1, data)>> ELSE <<>>)

----------------------------------------------------------------------------
(* Addressing window, st7789.py:171-189.                                   *)

encode_pos(x, y) == PackH(x) \o PackH(y)

set_columns(start, end) ==
    write(ST77XX_CASET, encode_pos(start + xstart, end + xstart))

set_rows(start, end) ==
    LET s == start + ystart
        e == end + ystart
    IN  write(ST77XX_RASET, encode_pos(s + ystart, e + ystart))

set_window(x0, y0, x1, y1) ==
    Res(set_columns(x0, x1) \o set_rows(y0, y1) \o write(ST77XX_RAMWR, NoneBytes),
        <<Call("set_window", <<x0, y0, x1, y1>>)>>)

----------------------------------------------------------------------------
(* Pixels and spans, st7789.py:194-233.                                    *)

\* pixel with the upper bounds compared with > instead of >=.
pixel_off_by_one(x, y, c) ==
    IF x < 0 \/ x > width \/ y < 0 \/ y > height
    THEN Res(<<>>, <<Call("pixel", <<x, y>>)>>)
    ELSE Res(<<PinEv("dc", 0), SpiEv(0, ST77XX_CASET),
               PinEv("dc", 1), SpiEv(1, encode_pos(x, x)),
               PinEv("dc", 0), SpiEv(0, ST77XX_RASET),
               PinEv("dc", 1), SpiEv(1, encode_pos(y, y)),
               PinEv("dc", 0), SpiEv(0, ST77XX_RAMWR),
               PinEv("dc", 1), SpiEv(1, c)>>,
             <<Call("pixel", <<x, y>>)>>)

pixel(x, y, c) ==
    IF x < 0 \/ x >= width \/ y < 0 \/ y >= height
    THEN Res(<<>>, <<Call("pixel", <<x, y>>)>>)
    ELSE Res(<<PinEv("dc", 0), SpiEv(0, ST77XX_CASET),
               PinEv("dc", 1), SpiEv(1, encode_pos(x, x)),
               PinEv("dc", 0), SpiEv(0, ST77XX_RASET),
               PinEv("dc", 1), SpiEv(1, encode_pos(y, y)),
               PinEv("dc", 0), SpiEv(0, ST77XX_RAMWR),
               PinEv("dc", 1), SpiEv(1, c)>>,
             <<Call("pixel", <<x, y>>)>>)

\* One write of buf for each of the n rows.
FillRows(buf, n) == LET row == write(NoneBytes, buf) IN Repeat(row, n)

\* fill() relying on a window left by an earlier call.
fill_cached(c) ==
    Res(FillRows(Repeat(c, width), height), <<>>)

fill(c) ==
    Then(set_window(0, 0, width - 1, height - 1),
         Res(FillRows(Repeat(c, width), height), <<>>))

hline(x0, x1, y, c) ==
    IF y < 0 \/ y >= height
    THEN Res(<<>>, <<Call("hline", <<x0, x1, y>>)>>)
    ELSE LET a == Max(Min(x0, x1), 0)
             b == Min(Max(x0, x1), width - 1)
         IN  Then(Res(<<>>, <<Call("hline", <<x0, x1, y>>)>>),
                  Then(set_window(a, y, b, y),
                       Res(write(NoneBytes, Repeat(c, b - a + 1)), <<>>)))

vline(y0, y1, x, c) ==
    LET a == Max(Min(y0, y1), 0)
        b == Min(Max(y0, y1), height - 1)
    IN  Then(Res(<<>>, <<Call("vline", <<y0, y1, x>>)>>),
             Then(set_window(x, a, x, b),
                  Res(write(NoneBytes, Repeat(c, b - a + 1)), <<>>)))

----------------------------------------------------------------------------
(* Controller protocol, st7789.py:115-169.                                 *)

hard_reset ==
    IF reset
    THEN <<PinEv("reset", 1), SleepEv(50), PinEv("reset", 0), SleepEv(50),
           PinEv("reset", 1), SleepEv(150)>>
    ELSE <<>>

soft_reset == write(ST77XX_SWRESET, NoneBytes) \o <<SleepEv(150)>>

sleep_mode(value) ==
    IF value THEN write(ST77XX_SLPIN, NoneBytes) ELSE write(ST77XX_SLPOUT, NoneBytes)

inversion_mode(value) ==
    IF value THEN write(ST77XX_INVON, NoneBytes) ELSE write(ST77XX_INVOFF, NoneBytes)

set_color_mode(mode) == write(ST77XX_COLMOD, <<BitAnd(mode, 119)>>)

set_mem_access_mode(landscape, mirror_x, mirror_y, is_bgr) ==
    LET v1 == IF landscape THEN BitOr(0, ST7789_MADCTL_MV) ELSE 0
        v2 == IF mirror_x THEN BitOr(v1, ST7789_MADCTL_MX) ELSE v1
        v3 == IF mirror_y THEN BitOr(v2, ST7789_MADCTL_MY) ELSE v2
        v4 == IF is_bgr THEN BitOr(v3, ST7789_MADCTL_BGR) ELSE v3
    IN  write(ST7789_MADCTL, <<v4>>)

\* init() up to the wait after the normal display mode command.
init_modes(landscape, mirror_x, mirror_y, is_bgr) ==
    Res(<<PinEv("cs", 0)>>
        \o hard_reset
        \o soft_reset
        \o sleep_mode(FALSE)
        \o set_color_mode(BitOr(ColorMode_65K, ColorMode_16bit))
        \o <<SleepEv(50)>>
        \o set_mem_access_mode(landscape, mirror_x, mirror_y, is_bgr)
        \o inversion_mode(inversion)
        \o <<SleepEv(10)>>
        \o write(ST77XX_NORON, NoneBytes)
        \o <<SleepEv(10)>>, <<>>)

\* self.cs.off() raises AttributeError when cs is None.
init(landscape, mirror_x, mirror_y, is_bgr) ==
    IF ~cs THEN Raise(<<>>, <<>>, "AttributeError")
    ELSE Then(init_modes(landscape, mirror_x, mirror_y, is_bgr),
              Then(Then(Res(<<>>, <<Call("fill", <<>>)>>), fill(color(0, 0, 0))),
                   Res(write(ST77XX_DISPON, NoneBytes) \o <<SleepEv(500)>>, <<>>)))

----------------------------------------------------------------------------
(* Lines, st7789.py:242-261.                                               *)

\* One iteration of the loop with "elif" for the step in y: one axis per
\* iteration.
LineIter_elif(p, g) ==
    LET e2 == 2 * p[3]
        stepx == e2 >= g.dy
        stepy == ~stepx /\ e2 <= g.dx
    IN  [done |-> p[1] = g.x1 /\ p[2] = g.y1,
         p |-> <<IF stepx THEN p[1] + g.sx ELSE p[1],
                 IF stepy THEN p[2] + g.sy ELSE p[2],
                 p[3] + (IF stepx THEN g.dy ELSE 0) + (IF stepy THEN g.dx ELSE 0)>>]

\* One iteration of "while True" after its call of pixel, from p = <<x0, y0,
\* err>>: whether it breaks, and x0, y0 and err after it if it does not.
LineIter(p, g) ==
    LET e2 == 2 * p[3]
        stepx == e2 >= g.dy
        stepy == e2 <= g.dx
    IN  [done |-> p[1] = g.x1 /\ p[2] = g.y1,
         p |-> <<IF stepx THEN p[1] + g.sx ELSE p[1],
                 IF stepy THEN p[2] + g.sy ELSE p[2],
                 p[3] + (IF stepx THEN g.dy ELSE 0) + (IF stepy THEN g.dx ELSE 0)>>]

\* The next n iterations from p, or fewer when the loop breaks: what they
\* do (r), where they leave x0, y0 and err (p), whether the loop broke.
\* The iterations are taken half by half, which keeps the evaluation of a
\* long line shallow.
RECURSIVE LineIters(_, _, _)
LineIters(p, n, g) ==
    IF n = 1
    THEN LET it == LineIter(p, g)
         IN  [r |-> pixel(p[1], p[2], g.c), p |-> it.p, done |-> it.done]
    ELSE LET a == LineIters(p, n \div 2, g)
         IN  IF a.done \/ a.r.e # "none" THEN a
             ELSE LET b == LineIters(a.p, n - (n \div 2), g)
                  IN  [r |-> Then(a.r, b.r), p |-> b.p, done |-> b.done]

\* "while True": n iterations, then twice as many, until the loop breaks.
RECURSIVE LineLoop(_, _, _)
LineLoop(p, n, g) ==
    LET a == LineIters(p, n, g)
    IN  IF a.done \/ a.r.e # "none" THEN a.r
        ELSE Then(a.r, LineLoop(a.p, 2 * n, g))

line(x0, y0, x1, y1, c) ==
    IF y0 = y1 THEN hline(x0, x1, y0, c)
    ELSE IF x0 = x1 THEN vline(y0, y1, x0, c)
    ELSE LET dx == Abs(x1 - x0)
             dy == -Abs(y1 - y0)
             sx == IF x0 < x1 THEN 1 ELSE -1
             sy == IF y0 < y1 THEN 1 ELSE -1
         IN  LineLoop(<<x0, y0, dx + dy>>, 1,
                      [x1 |-> x1, y1 |-> y1, dx |-> dx, dy |-> dy,
                       sx |-> sx, sy |-> sy, c |-> c])

----------------------------------------------------------------------------
(* Circles, st7789.py:264-303.                                             *)

\* One iteration of "while x0 < y0" and the ones after it.
RECURSIVE CircleLoop(_, _, _, _, _, _, _, _, _)
CircleLoop(x, y, x0, y0, f, dx, dy, c, filled) ==
    IF ~(x0 < y0) THEN Nothing
    ELSE LET dec == f >= 0
             ny0 == IF dec THEN y0 - 1 ELSE y0
             ndy == IF dec THEN dy + 2 ELSE dy
             f1 == IF dec THEN f + ndy ELSE f
             nx0 == x0 + 1
             ndx == dx + 2
             nf == f1 + ndx
             body ==
                IF filled
                THEN Then(hline(x - nx0, x + nx0, y + ny0, c),
                     Then(hline(x - nx0, x + nx0, y - ny0, c),
                     Then(hline(x - ny0, x + ny0, y + nx0, c),
                          hline(x - ny0, x + ny0, y - nx0, c))))
                ELSE Then(pixel(x + nx0, y + ny0, c),
                     Then(pixel(x - nx0, y + ny0, c),
                     Then(pixel(x + nx0, y - ny0, c),
                     Then(pixel(x - nx0, y - ny0, c),
                     Then(pixel(x + ny0, y + nx0, c),
                     Then(pixel(x - ny0, y + nx0, c),
                     Then(pixel(x + ny0, y - nx0, c),
                          pixel(x - ny0, y - nx0, c))))))))
         IN  Then(body, CircleLoop(x, y, nx0, ny0, nf, ndx, ndy, c, filled))

circle(x, y, radius, c, filled) ==
    Then(IF filled
         THEN hline(x - radius, x + radius, y, c)
         ELSE Then(pixel(x - radius, y, c), pixel(x + radius, y, c)),
         CircleLoop(x, y, 0, radius, 1 - radius, 1, -2 * radius, c, filled))

----------------------------------------------------------------------------
(* Triangles, st7789.py:307-342.                                           *)
(*                                                                         *)
(* The slopes are floats.  A slope is kept as the fraction <<n, d>> with   *)
(* d > 0, and x_start / x_end as the exact sum.  The float the code holds  *)
(* differs from the exact sum by rounding only when the slope has no exact *)
(* binary representation; int() of it then differs from the exact result   *)
(* only where the exact sum is a non-zero integer m, where the float may   *)
(* fall short of m and int() gives the integer next to m towards zero.     *)
(* Whether it falls short depends on the float format of the build: the    *)
(* set "short" names the places <<edge, y>> where it does.                 *)

RECURSIVE Gcd(_, _)
Gcd(a, b) == IF b = 0 THEN a ELSE Gcd(b, a % b)

RECURSIVE IsPow2(_)
IsPow2(n) == IF n = 1 THEN TRUE ELSE IF n % 2 = 1 THEN FALSE ELSE IsPow2(n \div 2)

Sgn(n) == IF n > 0 THEN 1 ELSE IF n < 0 THEN -1 ELSE 0

DivFault == <<0, -1>>
ZeroSlope == <<0, 1>>

\* a / b
Div(a, b) ==
    IF b = 0 THEN DivFault
    ELSE IF b < 0 THEN <<-a, -b>> ELSE <<a, b>>

\* The slope without its test of the divisor.
inv_slope_unguarded(a, b) == Div(a, b)

\* (a) / (b) if b != 0 else 0
inv_slope(a, b) == IF b # 0 THEN Div(a, b) ELSE ZeroSlope

\* The slope is a float with a rounding error.
Inexact(sl) == ~IsPow2(sl[2] \div Gcd(Abs(sl[1]), sl[2]))

\* int(q) for q = num/den, den > 0.
Trunc(num, den) == IF num >= 0 THEN num \div den ELSE -((-num) \div den)

\* base + k*slope is a non-zero integer reached through rounded additions.
MayFallShort(base, k, sl) ==
    /\ k >= 1
    /\ Inexact(sl)
    /\ (k * sl[1]) % sl[2] = 0
    /\ base + (k * sl[1]) \div sl[2] # 0

\* int(base + slope + ... + slope), k additions.
IntAt(base, k, sl, fallsShort) ==
    LET t == Trunc(base * sl[2] + k * sl[1], sl[2])
    IN  IF fallsShort /\ MayFallShort(base, k, sl) THEN t - Sgn(t) ELSE t

\* The vertices ordered by y as lines 309-311 order them.
SortY(v) ==
    LET a == IF v[2] > v[4] THEN <<v[3], v[4], v[1], v[2], v[5], v[6]>> ELSE v
        b == IF a[2] > a[6] THEN <<a[5], a[6], a[3], a[4], a[1], a[2]>> ELSE a
    IN  IF b[4] > b[6] THEN <<b[1], b[2], b[5], b[6], b[3], b[4]>> ELSE b

\* The slopes of lines 314-316 for ordered vertices.
Slopes(v) ==
    <<inv_slope(v[3] - v[1], v[4] - v[2]),
      inv_slope(v[5] - v[1], v[6] - v[2]),
      inv_slope(v[5] - v[3], v[6] - v[4])>>

\* The places where the float of a build may fall short of an integer.
ShortPlaces(x0, y0, x1, y1, x2, y2) ==
    LET v == SortY(<<x0, y0, x1, y1, x2, y2>>)
        s == Slopes(v)
    IN  IF DivFault \in {s[1], s[2], s[3]} THEN {}
        ELSE {<<"s", y>> : y \in {z \in v[2]..v[4] : MayFallShort(v[1], z - v[2], s[1])}}
             \cup {<<"s", y>> : y \in {z \in (v[4] + 1)..v[6] : MayFallShort(v[3], z - v[4] - 1, s[3])}}
             \cup {<<"e", y>> : y \in {z \in v[2]..v[6] : MayFallShort(v[1], z - v[2], s[2])}}

fill_triangle(x0, y0, x1, y1, x2, y2, c, short) ==
    LET v == SortY(<<x0, y0, x1, y1, x2, y2>>)
        s == Slopes(v)
        xend(y) == IntAt(v[1], y - v[2], s[2], <<"e", y>> \in short)
        upper[y \in v[2]..(v[4] + 1)] ==
            IF y > v[4] THEN Nothing
            ELSE Then(hline(IntAt(v[1], y - v[2], s[1], <<"s", y>> \in short),
                            xend(y), y, c),
                      upper[y + 1])
        lower[y \in (v[4] + 1)..(v[6] + 1)] ==
            IF y > v[6] THEN Nothing
            ELSE Then(hline(IntAt(v[3], y - v[4] - 1, s[3], <<"s", y>> \in short),
                            xend(y), y, c),
                      lower[y + 1])
    IN  IF DivFault \in {s[1], s[2], s[3]}
        THEN Raise(<<>>, <<>>, "ZeroDivisionError")
        ELSE Then(upper[v[2]], lower[v[4] + 1])

triangle(x0, y0, x1, y1, x2, y2, c, filled, short) ==
    IF filled THEN fill_triangle(x0, y0, x1, y1, x2, y2, c, short)
    ELSE Then(line(x0, y0, x1, y1, c),
         Then(line(x1, y1, x2, y2, c),
              line(x2, y2, x0, y0, c)))

----------------------------------------------------------------------------
(* Text, st7789.py:351-378.                                                *)
(*                                                                         *)
(* The font is the one of framebuf, outside the driver: a character is     *)
(* given to the model as its glyph, 8 bytes, one per column, bit i of a    *)
(* byte being row i.  framebuf keeps an RGB565 pixel as a 16 bit word in   *)
(* the byte order of the machine, least significant byte first.            *)

GlyphA == <<124, 126, 11, 11, 126, 124, 0, 0>>
GlyphDiag == <<1, 2, 4, 8, 16, 32, 64, 129>>
Glyphs == {GlyphA, GlyphDiag}

\* self.charfb_data after charfb.fill(bg) and charfb.text(ch, 0, 0, fg).
render(glyph, bgcolor, fgcolor) ==
    [i \in 1..128 |->
        LET px == (i - 1) \div 2
            col == px % 8
            row == px \div 8
            v == IF Shr(glyph[col + 1], row) % 2 = 1
                 THEN UnpackH(fgcolor) ELSE UnpackH(bgcolor)
        IN  IF (i - 1) % 2 = 0 THEN v % 256 ELSE v \div 256]

\* The loop of lines 366-369, from row dy on.
RECURSIVE CopyRows(_, _, _, _)
CopyRows(copy, buf, w, dy) ==
    IF dy >= 8 THEN copy
    ELSE LET src_idx == (dy * 8) * 2
             dst_idx == (dy * w) * 2
         IN  CopyRows(SliceAssign(copy, dst_idx, dst_idx + w * 2,
                                  Slice(buf, src_idx, src_idx + w * 2)),
                      buf, w, dy + 1)

\* TRUE when char returns at line 353.
CharDropped(x, y) == x >= width \/ y >= height

\* char without the partial update: the glyph is always sent whole.
char_whole(x, y, glyph, bgcolor, fgcolor) ==
    IF CharDropped(x, y) THEN Res(<<>>, <<Call("char", <<x, y>>)>>)
    ELSE Then(Res(<<>>, <<Call("char", <<x, y>>)>>),
              Then(set_window(x, y, x + 7, y + 7),
                   Res(write(NoneBytes, render(glyph, bgcolor, fgcolor)), <<>>)))

char(x, y, glyph, bgcolor, fgcolor) ==
    IF CharDropped(x, y) THEN Res(<<>>, <<Call("char", <<x, y>>)>>)
    ELSE LET buf == render(glyph, bgcolor, fgcolor)
         IN  Then(Res(<<>>, <<Call("char", <<x, y>>)>>),
                  IF x + 7 >= width
                  THEN LET w == width - x
                       IN  Then(set_window(x, y, x + w - 1, y + 7),
                                Res(write(NoneBytes,
                                          CopyRows([i \in 1..(w * 8 * 2) |-> 0], buf, w, 0)),
                                    <<>>))
                  ELSE Then(set_window(x, y, x + 7, y + 7),
                            Res(write(NoneBytes, buf), <<>>)))

RECURSIVE TextFrom(_, _, _, _, _, _)
TextFrom(i, x, y, txt, bgcolor, fgcolor) ==
    IF i >= Len(txt) THEN Nothing
    ELSE Then(char(x + i * 8, y, txt[i + 1], bgcolor, fgcolor),
              TextFrom(i + 1, x, y, txt, bgcolor, fgcolor))

text(x, y, txt, bgcolor, fgcolor) == TextFrom(0, x, y, txt, bgcolor, fgcolor)

\* self.charfb_data after text(): the glyph of the last character drawn.
RECURSIVE BufAfterText(_, _, _, _, _, _)
BufAfterText(n, x, y, txt, bgcolor, fgcolor) ==
    IF n = 0 THEN charfb_data
    ELSE IF CharDropped(x + (n - 1) * 8, y)
         THEN BufAfterText(n - 1, x, y, txt, bgcolor, fgcolor)
         ELSE render(txt[n], bgcolor, fgcolor)

----------------------------------------------------------------------------
(* How a call changes the state.                                           *)

\* The level of the dc pin after the events w.
RECURSIVE DcAfter(_, _)
DcAfter(level, w) ==
    IF w = <<>> THEN level
    ELSE LET ev == w[Len(w)]
         IN  IF ev.k = "pin" /\ ev.p = "dc" THEN ev.v
             ELSE DcAfter(level, SubSeq(w, 1, Len(w) - 1))

\* What a call does when it runs to its end: events, primitive calls,
\* exception.  The calls that wait read only fields that never change.
Result(call) ==
    LET a == call.a
        c == call.c
    IN  CASE call.op = "color" -> Nothing
          [] call.op = "init" -> init(a[1] = 1, a[2] = 1, a[3] = 1, a[4] = 1)
          [] call.op = "write" -> Res(write(call.g[1], call.g[2]), <<>>)
          [] call.op = "hard_reset" -> Res(hard_reset, <<>>)
          [] call.op = "soft_reset" -> Res(soft_reset, <<>>)
          [] call.op = "sleep_mode" -> Res(sleep_mode(a[1] = 1), <<>>)
          [] call.op = "inversion_mode" -> Res(inversion_mode(a[1] = 1), <<>>)
          [] call.op = "set_window" -> set_window(a[1], a[2], a[3], a[4])
          [] call.op = "pixel" -> pixel(a[1], a[2], c)
          [] call.op = "fill" -> Then(Res(<<>>, <<Call("fill", <<>>)>>), fill(c))
          [] call.op = "hline" -> hline(a[1], a[2], a[3], c)
          [] call.op = "vline" -> vline(a[1], a[2], a[3], c)
          [] call.op = "line" -> line(a[1], a[2], a[3], a[4], c)
          [] call.op = "circle" -> circle(a[1], a[2], a[3], c, a[4] = 1)
          [] call.op = "triangle" ->
                triangle(a[1], a[2], a[3], a[4], a[5], a[6], c, a[7] = 1, call.o)
          [] call.op = "char" ->
                char(a[1], a[2], call.g[1], SubSeq(c, 1, 2), SubSeq(c, 3, 4))
          [] call.op = "text" ->
                text(a[1], a[2], call.g, SubSeq(c, 1, 2), SubSeq(c, 3, 4))

\* The value a call returns, <<>> for None.
Returned(call) ==
    IF call.op = "color" THEN color(call.a[1], call.a[2], call.a[3]) ELSE <<>>

\* self.charfb_data after a call.
BufAfter(call) ==
    IF call.op \in {"char", "text"}
    THEN BufAfterText(Len(call.g), call.a[1], call.a[2], call.g,
                      SubSeq(call.c, 1, 2), SubSeq(call.c, 3, 4))
    ELSE charfb_data

\* The place in w, from from on, of the next time.sleep_ms, or the end.
NextStop(w, from) ==
    LET S == {i \in from..Len(w) : w[i].k = "sleep"}
    IN  IF S = {} THEN Len(w) ELSE CHOOSE i \in S : \A j \in S : i <= j

Sleeps(w, stop) == stop >= 1 /\ w[stop].k = "sleep"

\* The primitive calls a call has made when stop of its events are out:
\* init() makes its only one, fill(), after the wait that ends init_modes.
MadeSoFar(call, r, stop) ==
    IF call.op = "init" /\ stop <= Len(init_modes(FALSE, FALSE, FALSE, FALSE).w)
    THEN <<>>
    ELSE r.c

One(p) == SetToBag({p})

\* A call runs to its first time.sleep_ms, where it waits, or to its end.
\* At most MaxWaiting calls wait at a time.
Done(call, r) ==
    \E stop \in {NextStop(r.w, 1)} :
        /\ wire' = SubSeq(r.w, 1, stop)
        /\ dc' = DcAfter(dc, SubSeq(r.w, 1, stop))
        /\ last' = call
        /\ calls' = MadeSoFar(call, r, stop)
        /\ err' = IF Sleeps(r.w, stop) THEN "none" ELSE r.e
        /\ IF Sleeps(r.w, stop)
           THEN /\ BagCardinality(pend) < MaxWaiting
                /\ pend' = pend (+) One(Waiting(call, stop))
           ELSE pend' = pend
        /\ UNCHANGED obj

\* One of the waiting calls wakes up and runs to its next time.sleep_ms or
\* to its end; wire is then all it has done so far.
Resume ==
    /\ \E p \in BagToSet(pend) :
       \E r \in {Result(p.call)} :
       \E stop \in {NextStop(r.w, p.at + 1)} :
           /\ wire' = SubSeq(r.w, 1, stop)
           /\ dc' = DcAfter(dc, SubSeq(r.w, p.at + 1, stop))
           /\ last' = p.call
           /\ calls' = MadeSoFar(p.call, r, stop)
           /\ err' = IF stop > p.at /\ Sleeps(r.w, stop) THEN "none" ELSE r.e
           /\ pend' = IF stop > p.at /\ Sleeps(r.w, stop)
                      THEN (pend (-) One(p)) (+) One(Waiting(p.call, stop))
                      ELSE pend (-) One(p)
    /\ ret' = <<>>
    /\ UNCHANGED <<obj, charfb_data, req>>

\* The effect of a call on the state; req is left to the caller.
Do(call) ==
    /\ \E r \in {Result(call)} : Done(call, r)
    /\ ret' = Returned(call)
    /\ charfb_data' = BufAfter(call)

----------------------------------------------------------------------------
(* The arguments the calls are made with.                                  *)

Black == <<0, 0>>
Red == <<248, 0>>
Mixed == <<7, 224>>
Colors == {Red, Mixed}

\* Coordinates around the edges of the panel.
XS == {-Margin, 0, 1, width - 2, width - 1, width - 1 + Margin}
YS == {-Margin, 0, 1, height - 2, height - 1, height - 1 + Margin}

\* Coordinates inside the panel: all of them on a small panel.
InX == IF width <= PW + 1 THEN 0..(width - 1) ELSE {0, 1, width - 2, width - 1}
InY == IF height <= PH + 1 THEN 0..(height - 1) ELSE {0, 1, height - 2, height - 1}

\* Coordinates inside and just outside of the panel.
AllX == IF width <= PW + 1 THEN (-Margin)..(width - 1 + Margin) ELSE XS
AllY == IF height <= PH + 1 THEN (-Margin)..(height - 1 + Margin) ELSE YS

\* Channel values: every bit alone, set and cleared, and the runs of low bits.
Chan == {0, 255} \cup {2^k : k \in 0..7} \cup {255 - 2^k : k \in 0..7}
             \cup {2^k - 1 : k \in 1..7}

Txts == UNION {[1..n -> Glyphs] : n \in 0..MaxTxt}

ColorCalls == {TheCall("color", <<r, g, b>>, <<>>, <<>>, {}) : r \in Chan, g \in Chan, b \in Chan}

InitCalls ==
    {TheCall("init", <<l, mx, my, bgr>>, <<>>, <<>>, {}) :
        l \in {0, 1}, mx \in {0, 1}, my \in {0, 1}, bgr \in {0, 1}}

WindowCalls ==
    {TheCall("set_window", <<x0, y0, x1, y1>>, <<>>, <<>>, {}) :
        x0 \in InX, y0 \in InY, x1 \in InX, y1 \in InY}

ValidWindowCalls == {k \in WindowCalls : k.a[1] <= k.a[3] /\ k.a[2] <= k.a[4]}

PixelCalls == {TheCall("pixel", <<x, y>>, c, <<>>, {}) : x \in AllX, y \in AllY, c \in Colors}

----------------------------------------------------------------------------
(* The driver used by a program: any sequence of calls.                    *)

Color == \E r \in {255}, g \in {4}, b \in {8} :
    Do(TheCall("color", <<r, g, b>>, <<>>, <<>>, {})) /\ UNCHANGED req

InitDisplay == \E k \in {j \in InitCalls : j.a = <<1, 0, 1, 1>>} :
    Do(k) /\ UNCHANGED req

\* write(command, data) with a command, data, both or neither.
Write == \E g \in {<<ST77XX_CASET, Red>>, <<ST77XX_CASET, NoneBytes>>, <<NoneBytes, Red>>} :
    Do(TheCall("write", <<>>, <<>>, g, {})) /\ UNCHANGED req

HardReset == Do(TheCall("hard_reset", <<>>, <<>>, <<>>, {})) /\ UNCHANGED req

SoftReset == Do(TheCall("soft_reset", <<>>, <<>>, <<>>, {})) /\ UNCHANGED req

SleepMode == \E v \in {0, 1} :
    Do(TheCall("sleep_mode", <<v>>, <<>>, <<>>, {})) /\ UNCHANGED req

InversionMode == \E v \in {0, 1} :
    Do(TheCall("inversion_mode", <<v>>, <<>>, <<>>, {})) /\ UNCHANGED req

SetWindow == \E x0 \in {1}, x1 \in {width - 1} :
    Do(TheCall("set_window", <<x0, 0, x1, height - 1>>, <<>>, <<>>, {}))
    /\ UNCHANGED req

Pixel == \E p \in {<<-1, 1>>, <<1, 1>>, <<width, 1>>, <<1, height>>} :
    Do(TheCall("pixel", p, Red, <<>>, {})) /\ UNCHANGED req

Fill == Do(TheCall("fill", <<>>, Mixed, <<>>, {})) /\ UNCHANGED req

HLine == \E p \in {<<-1, 1>>, <<1, 1>>, <<width, 1>>, <<1, height>>} :
    Do(TheCall("hline", <<p[1], width, p[2]>>, Red, <<>>, {})) /\ UNCHANGED req

VLine == \E p \in {<<-1, width>>, <<1, 1>>, <<height, 1>>} :
    Do(TheCall("vline", <<p[1], height, p[2]>>, Red, <<>>, {})) /\ UNCHANGED req

Line == \E x0 \in {0}, y0 \in {-1}, x1 \in {0, width}, y1 \in {height - 1} :
    Do(TheCall("line", <<x0, y0, x1, y1>>, Red, <<>>, {})) /\ UNCHANGED req

Circle == \E x \in {0}, r \in {MaxR}, f \in {0, 1} :
    Do(TheCall("circle", <<x, 1, r, f>>, Red, <<>>, {})) /\ UNCHANGED req

Triangle ==
    \E x1 \in {0}, y1 \in {height - 1}, y2 \in {-1}, f \in {0, 1} :
        \E o \in SUBSET (IF f = 1 THEN ShortPlaces(0, 1, x1, y1, width, y2) ELSE {}) :
            Do(TheCall("triangle", <<0, 1, x1, y1, width, y2, f>>, Red, <<>>, o))
            /\ UNCHANGED req

Char == \E p \in {<<-1, 1>>, <<width, 1>>, <<1, height - 1>>} :
    Do(TheCall("char", p, Black \o Red, <<GlyphA>>, {})) /\ UNCHANGED req

Text == \E x \in {width - 4}, n \in {0, MaxTxt} :
    Do(TheCall("text", <<x, 1>>, Black \o Red, [i \in 1..n |-> GlyphA], {}))
    /\ UNCHANGED req

MainConfigs ==
    { Cfg(PW, PH, None, None, FALSE, TRUE, FALSE),
      Cfg(PW, PH, OffX, OffY, TRUE, FALSE, TRUE) }

Init ==
    /\ \E cfg \in MainConfigs : Construct(cfg)
    /\ dc \in {0, 1}
    /\ req = NoCall

Next ==
    \/ Color \/ InitDisplay \/ Write \/ HardReset \/ SoftReset
    \/ SleepMode \/ InversionMode \/ SetWindow
    \/ Pixel \/ Fill \/ HLine \/ VLine \/ Line \/ Circle \/ Triangle
    \/ Char \/ Text \/ Resume

Spec == Init /\ [][Next]_vars

----------------------------------------------------------------------------
(* One call on a freshly constructed driver, over many more arguments.     *)

Run(op) ==
    /\ req.op = op
    /\ Do(req)
    /\ req' = NoCall

\* The dc pin starts at the level the last data write leaves it at.
InitWith(cfgs, reqs) ==
    /\ \E cfg \in cfgs : Construct(cfg)
    /\ dc = 1
    /\ req \in reqs

OneConfig == {Cfg(PW, PH, None, None, FALSE, TRUE, TRUE)}

TwoConfigs ==
    { Cfg(PW, PH, None, None, FALSE, TRUE, TRUE),
      Cfg(PW, PH, OffX, OffY, TRUE, TRUE, TRUE) }

RunColor == Run("color")
SpecColor == InitWith(OneConfig, ColorCalls) /\ [][RunColor]_vars

\* init(), a step to each time.sleep_ms, with resets called during its waits
\* and init() called during the waits of a reset.
NoPins ==
    { Cfg(PW, PH, None, None, FALSE, FALSE, TRUE),
      Cfg(PW, PH, OffX, OffY, FALSE, TRUE, FALSE) }

RunInit == Run("init")
SpecInit ==
    InitWith(TwoConfigs \cup NoPins, InitCalls)
    /\ [][RunInit \/ HardReset \/ SoftReset \/ Resume]_vars

RunSetWindow == Run("set_window")
SpecWindow == InitWith(Configs, ValidWindowCalls) /\ [][RunSetWindow]_vars

RunPixel == Run("pixel")
SpecPixel == InitWith(Configs, PixelCalls) /\ [][RunPixel]_vars

LineCoords == (-Margin)..(Margin + 1)
LineCalls ==
    {TheCall("line", <<x0, y0, x1, y1>>, Red, <<>>, {}) :
        x0 \in LineCoords, y0 \in LineCoords, x1 \in LineCoords, y1 \in LineCoords}

RunLine == Run("line")
SpecLine == InitWith(TwoConfigs, LineCalls) /\ [][RunLine]_vars

CircleX == ((-Margin)..Margin) \cup ((width - 1 - Margin)..(width - 1 + Margin))
CircleY == ((-Margin)..Margin) \cup ((height - 1 - Margin)..(height - 1 + Margin))
CircleCalls ==
    {TheCall("circle", <<x, y, r, f>>, Red, <<>>, {}) :
        x \in CircleX, y \in CircleY, r \in 0..MaxR, f \in {0, 1}}

RunCircle == Run("circle")
SpecCircle == InitWith(TwoConfigs, CircleCalls) /\ [][RunCircle]_vars

\* Vertices up to TriX, on the panel or one to the left of it.
TriXs == (-1)..Min(TriX, width - 1)
TriYs == (-1)..(TriY - 1)
TriangleCalls ==
    UNION {{TheCall("triangle", <<x0, y0, x1, y1, x2, y2, 1>>, Red, <<>>, o) :
                o \in SUBSET ShortPlaces(x0, y0, x1, y1, x2, y2)} :
           x0 \in TriXs, y0 \in TriYs, x1 \in TriXs, y1 \in TriYs,
           x2 \in TriXs, y2 \in TriYs}

RunTriangle == Run("triangle")
SpecTriangle == InitWith(TwoConfigs, TriangleCalls) /\ [][RunTriangle]_vars

CharCalls ==
    {TheCall("char", <<x, y>>, bg \o Red, <<g>>, {}) :
        x \in AllX, y \in {-1, 0, height - 1, height}, bg \in {Black, Mixed}, g \in Glyphs}
TextCalls ==
    {TheCall("text", <<x, 0>>, Black \o Red, t, {}) : x \in AllX, t \in Txts}

RunChar == Run("char")
RunText == Run("text")
SpecText == InitWith(TwoConfigs, CharCalls \cup TextCalls) /\ [][RunChar \/ RunText]_vars

----------------------------------------------------------------------------
(* Any sequence of calls on a driver constructed with or without an        *)
(* explicit offset; req keeps the arguments of the constructor.            *)

OffsetConfigs ==
    { Cfg(PW, PH, OffX, 0, FALSE, TRUE, FALSE),
      Cfg(PW, PH, 0, OffY, FALSE, FALSE, TRUE),
      Cfg(PW, PH, OffX, OffY, FALSE, FALSE, FALSE),
      Cfg(135, 240, 0, 0, FALSE, TRUE, FALSE),
      Cfg(135, 240, None, None, FALSE, FALSE, FALSE) }

InitOffset ==
    \E cfg \in OffsetConfigs :
        /\ Construct(cfg)
        /\ dc = 1
        /\ req = TheCall("__init__", <<cfg.w, cfg.h, cfg.xa, cfg.ya>>, <<>>, <<>>, {})

\* Lines and triangles near the origin, short on a panel of any size.
LineShort == \E x1 \in {0, 2}, y1 \in {0, 3} :
    Do(TheCall("line", <<0, 0, x1, y1>>, Red, <<>>, {})) /\ UNCHANGED req

TriangleShort ==
    \E x1 \in {0, 2}, y2 \in {0, 2}, f \in {0, 1} :
        \E o \in SUBSET (IF f = 1 THEN ShortPlaces(0, 0, x1, 1, 3, y2) ELSE {}) :
            Do(TheCall("triangle", <<0, 0, x1, 1, 3, y2, f>>, Red, <<>>, o))
            /\ UNCHANGED req

NextOffset ==
    \/ Color \/ InitDisplay \/ Write \/ HardReset \/ SoftReset
    \/ SleepMode \/ InversionMode \/ SetWindow
    \/ Pixel \/ Fill \/ HLine \/ VLine \/ LineShort \/ Circle \/ TriangleShort
    \/ Char \/ Text \/ Resume

SpecOffset == InitOffset /\ [][NextOffset]_vars

----------------------------------------------------------------------------
(* Reading the wire as the controller does.                                *)

\* The SPI writes of w: <<level of dc, bytes>>.
SpiWrites(w) ==
    LET sp == SelectSeq(w, LAMBDA e : e.k = "spi")
    IN  [i \in 1..Len(sp) |-> <<sp[i].v, sp[i].d>>]

Cmd(b) == <<0, b>>
Data(b) == <<1, b>>

\* A position as the controller reads it: two 16 bit numbers, high byte first.
Pos(a, b) == <<a \div 256, a % 256, b \div 256, b % 256>>
PosOf(d) == <<d[1] * 256 + d[2], d[3] * 256 + d[4]>>

\* The command the write sp[k] belongs to: the last one at or before k.
CommandAt(sp, k) ==
    LET S == {j \in 1..k : sp[j][1] = 0}
    IN  IF S = {} THEN <<>> ELSE sp[CHOOSE j \in S : \A m \in S : m <= j][2]

\* The range last set by command cmd before write i, <<0, 0>> if none.
RangeBefore(sp, i, cmd) ==
    LET S == {k \in 1..(i - 1) : /\ sp[k][1] = 1
                                 /\ Len(sp[k][2]) = 4
                                 /\ CommandAt(sp, k) = cmd}
    IN  IF S = {} THEN <<0, 0>>
        ELSE PosOf(sp[CHOOSE k \in S : \A m \in S : m <= k][2])

\* The bytes of the data writes sp[i..j], one after the other.
RECURSIVE DataFrom(_, _, _)
DataFrom(sp, i, j) == IF i > j THEN <<>> ELSE sp[i][2] \o DataFrom(sp, i + 1, j)

\* The last write of the run of data writes that follows write i.
DataEnd(sp, i) ==
    LET S == {k \in (i + 1)..Len(sp) : sp[k][1] = 0}
    IN  IF S = {} THEN Len(sp) ELSE (CHOOSE k \in S : \A m \in S : k <= m) - 1

\* The bursts of pixel data of w: for each memory-write command the column
\* and row ranges set before it and the data bytes that follow it.
BurstsOf(w) ==
    LET sp == SpiWrites(w)
        R == {i \in 1..Len(sp) : sp[i] = Cmd(ST77XX_RAMWR)}
        at(n) == CHOOSE i \in R : Cardinality({j \in R : j < i}) = n - 1
    IN  [n \in 1..Cardinality(R) |->
            [col |-> RangeBefore(sp, at(n), ST77XX_CASET),
             row |-> RangeBefore(sp, at(n), ST77XX_RASET),
             d |-> DataFrom(sp, at(n) + 1, DataEnd(sp, at(n)))]]

\* The window of a burst in the coordinates of the panel.
LogicalWindow(b) ==
    [x0 |-> b.col[1] - xstart, x1 |-> b.col[2] - xstart,
     y0 |-> b.row[1] - ystart, y1 |-> b.row[2] - ystart]

WellFormed(b) == b.col[1] <= b.col[2] /\ b.row[1] <= b.row[2]

\* The memory cells <<column, row>> a burst writes: the window is filled
\* row by row from its top left corner, and again from there when full.
CellsOf(b) ==
    LET n == Len(b.d) \div 2
        w == b.col[2] - b.col[1] + 1
        h == b.row[2] - b.row[1] + 1
    IN  IF n = 0 \/ ~WellFormed(b) THEN {}
        ELSE {<<b.col[1] + (k % w), b.row[1] + ((k \div w) % h)>> : k \in 0..(n - 1)}

\* The pixels of the panel written by w.
PanelPixels(w) ==
    LET bs == BurstsOf(w)
        cells == UNION {CellsOf(bs[i]) : i \in 1..Len(bs)}
    IN  {p \in {<<m[1] - xstart, m[2] - ystart>> : m \in cells} :
            p[1] \in 0..(width - 1) /\ p[2] \in 0..(height - 1)}

----------------------------------------------------------------------------
(* C1 - set_window                                                         *)

\* C1: for a window inside the panel, set_window(x0, y0, x1, y1) writes the
\* column address command with (x0 + xstart, x1 + xstart), the row address
\* command with (y0 + ystart, y1 + ystart) and the memory write command:
\* each offset is added once.
C1_SetWindowAddsOffsetOnce ==
    (last.op = "set_window" /\ last.a[1] <= last.a[3] /\ last.a[2] <= last.a[4])
    => SpiWrites(wire) =
          << Cmd(<<42>>), Data(Pos(last.a[1] + xstart, last.a[3] + xstart)),
             Cmd(<<43>>), Data(Pos(last.a[2] + ystart, last.a[4] + ystart)),
             Cmd(<<44>>) >>

----------------------------------------------------------------------------
(* C2 - init                                                               *)

\* The events init() is to produce on a driver with inversion flag inv, for
\* the memory access byte madctl.
InitSequence(madctl, inv) ==
    << PinEv("cs", 0),
       PinEv("reset", 1), SleepEv(50), PinEv("reset", 0), SleepEv(50),
       PinEv("reset", 1), SleepEv(150),
       PinEv("dc", 0), SpiEv(0, <<1>>), SleepEv(150),
       PinEv("dc", 0), SpiEv(0, <<17>>),
       PinEv("dc", 0), SpiEv(0, <<58>>), PinEv("dc", 1), SpiEv(1, <<85>>),
       SleepEv(50),
       PinEv("dc", 0), SpiEv(0, <<54>>), PinEv("dc", 1), SpiEv(1, <<madctl>>),
       PinEv("dc", 0), SpiEv(0, IF inv THEN <<33>> ELSE <<32>>), SleepEv(10),
       PinEv("dc", 0), SpiEv(0, <<19>>), SleepEv(10) >>

InitTail == << PinEv("dc", 0), SpiEv(0, <<41>>), SleepEv(500) >>

Madctl(a) == 32 * a[1] + 64 * a[2] + 128 * a[3] + 8 * a[4]

\* The part of the wire of init() between the mode commands and display-on.
InitClear == SubSeq(wire, Len(InitSequence(0, FALSE)) + 1, Len(wire) - Len(InitTail))

\* The last call is not waiting in time.sleep_ms.
Ended == ~BagIn(Waiting(last, Len(wire)), pend)

\* C2: on a driver with a chip-select and a reset line, init(), when it has
\* run to its end, has produced the
\* steps of the power-up sequence in order, with their delays, and between
\* normal-display-mode and display-on it clears the panel: one burst on the
\* window of the whole panel with width*height black pixels.
C2_InitSequenceInOrder ==
    (last.op = "init" /\ Ended /\ cs /\ reset)
    => /\ err = "none"
       /\ Len(wire) >= Len(InitSequence(0, FALSE)) + Len(InitTail)
       /\ SubSeq(wire, 1, Len(InitSequence(0, FALSE)))
             = InitSequence(Madctl(last.a), inversion)
       /\ SubSeq(wire, Len(wire) - Len(InitTail) + 1, Len(wire)) = InitTail
       /\ \A i \in 1..Len(InitClear) :
             InitClear[i].k = "spi" \/ (InitClear[i].k = "pin" /\ InitClear[i].p = "dc")
       /\ Len(BurstsOf(InitClear)) = 1
       /\ SpiWrites(InitClear)[1] = Cmd(<<42>>)
       /\ LET b == BurstsOf(InitClear)[1]
          IN  /\ LogicalWindow(b) = [x0 |-> 0, x1 |-> width - 1, y0 |-> 0, y1 |-> height - 1]
              /\ b.d = [i \in 1..(2 * width * height) |-> 0]

\* The same without the addresses of the clear: the steps and their order.
InitStepsInOrder ==
    (last.op = "init" /\ Ended /\ cs /\ reset)
    => /\ err = "none"
       /\ SubSeq(wire, 1, Len(InitSequence(0, FALSE)))
             = InitSequence(Madctl(last.a), inversion)
       /\ SubSeq(wire, Len(wire) - Len(InitTail) + 1, Len(wire)) = InitTail
       /\ Len(BurstsOf(InitClear)) = 1
       /\ LET sw == SpiWrites(InitClear)
          IN  /\ sw[1] = Cmd(<<42>>) /\ sw[2][1] = 1 /\ Len(sw[2][2]) = 4
              /\ sw[3] = Cmd(<<43>>) /\ sw[4][1] = 1 /\ Len(sw[4][2]) = 4
              /\ sw[5] = Cmd(<<44>>)
       /\ BurstsOf(InitClear)[1].d = [i \in 1..(2 * width * height) |-> 0]

----------------------------------------------------------------------------
(* C3 - windows of the drawing calls                                       *)

DrawingOps == {"pixel", "hline", "vline", "line", "circle", "triangle",
               "char", "text", "fill"}

InPanel(win) ==
    /\ 0 <= win.x0 /\ win.x0 <= win.x1 /\ win.x1 <= width - 1
    /\ 0 <= win.y0 /\ win.y0 <= win.y1 /\ win.y1 <= height - 1

\* C3: after any drawing call every window put on the wire is a rectangle
\* of the panel, 0 <= x0 <= x1 <= width-1 and 0 <= y0 <= y1 <= height-1,
\* and the call raised no error.
C3_WindowsInsidePanel ==
    last.op \in DrawingOps
    => /\ err = "none"
       /\ \A i \in 1..Len(BurstsOf(wire)) : InPanel(LogicalWindow(BurstsOf(wire)[i]))

----------------------------------------------------------------------------
(* C4, C5 - pixel                                                          *)

OnPanel(x, y) == 0 <= x /\ x < width /\ 0 <= y /\ y < height

\* C4: pixel(x, y, color) on the panel writes the window of set_window(x, y,
\* x, y), offsets applied, then the memory write command and the 2 bytes of
\* the colour.
C4_PixelWindowHasOffset ==
    (last.op = "pixel" /\ OnPanel(last.a[1], last.a[2]))
    => SpiWrites(wire) =
          << Cmd(<<42>>), Data(Pos(last.a[1] + xstart, last.a[1] + xstart)),
             Cmd(<<43>>), Data(Pos(last.a[2] + ystart, last.a[2] + ystart)),
             Cmd(<<44>>), Data(last.c) >>

\* C5: pixel(x, y, color) outside of the panel does nothing: no event on the
\* bus or on a pin, the dc line keeps its level, no error.
C5_PixelOutsideIsNoOp ==
    [][(last'.op = "pixel" /\ ~OnPanel(last'.a[1], last'.a[2]))
        => (wire' = <<>> /\ dc' = dc /\ err' = "none" /\ UNCHANGED <<obj, charfb_data>>)]_vars

C5_Witness ==
    /\ last.op = "pixel" /\ ~OnPanel(last.a[1], last.a[2])
    /\ wire = <<>>
    /\ dc = 1

----------------------------------------------------------------------------
(* C6 - color                                                              *)

\* C6: color(r, g, b) returns 2 bytes; read high byte first they are
\* ((r & 0xF8) << 8) | ((g & 0xFC) << 3) | (b >> 3), a 16 bit value.  The
\* three fields do not overlap, so the value is the sum of r without its 3
\* low bits times 256, g without its 2 low bits times 8, and b / 8.
C6_ColorIsRGB565 ==
    last.op = "color"
    => /\ Len(ret) = 2
       /\ ret[1] \in 0..255 /\ ret[2] \in 0..255
       /\ ret[1] * 256 + ret[2]
             = (last.a[1] - (last.a[1] % 8)) * 256
               + (last.a[2] - (last.a[2] % 4)) * 8
               + (last.a[3] \div 8)
       /\ ret[1] * 256 + ret[2] < 65536

C6_Witness ==
    /\ last.op = "color" /\ last.a = <<255, 127, 254>>
    /\ ret = <<251, 255>>

----------------------------------------------------------------------------
(* C7 - a character across the right edge                                  *)

\* The character of the last call, char(x, y, ...), starts on the panel,
\* ends beyond its right edge and is not above or below it.
CharAcrossRightEdge ==
    /\ last.op = "char"
    /\ 0 <= last.a[1] /\ last.a[1] < width /\ last.a[1] + 7 >= width
    /\ last.a[2] < height

\* C7: such a character is one burst whose window spans the columns x to
\* width-1 of the panel; its payload is, for each of the 8 rows of the glyph
\* buffer, the first width-x pixels of the row.  A text starting at x >= 0
\* writes one burst per character that starts on the panel, each on columns
\* of the panel and no longer than its window.
C7_CharClippedAtRightEdge ==
    /\ CharAcrossRightEdge =>
          LET bs == BurstsOf(wire)
              vis == width - last.a[1]
          IN  /\ Len(bs) = 1
              /\ bs[1].col = <<last.a[1] + xstart, width - 1 + xstart>>
              /\ Len(bs[1].d) = vis * 8 * 2
              /\ \A row \in 0..7, j \in 0..(vis - 1), k \in 1..2 :
                    bs[1].d[(row * vis + j) * 2 + k] = charfb_data[(row * 8 + j) * 2 + k]
    /\ (last.op = "text" /\ last.a[1] >= 0) =>
          LET bs == BurstsOf(wire)
          IN  /\ Len(bs) = Cardinality({i \in 1..Len(last.g) : last.a[1] + (i - 1) * 8 < width})
              /\ \A i \in 1..Len(bs) :
                    /\ xstart <= bs[i].col[1]
                    /\ bs[i].col[1] <= bs[i].col[2]
                    /\ bs[i].col[2] <= width - 1 + xstart
                    /\ Len(bs[i].d) = 16 * (bs[i].col[2] - bs[i].col[1] + 1)

C7_Witness ==
    /\ CharAcrossRightEdge
    /\ last.a[1] = width - 3
    /\ last.g = <<GlyphDiag>>
    /\ Len(BurstsOf(wire)) = 1
    /\ Len(BurstsOf(wire)[1].d) = 48
    /\ xstart > 0

----------------------------------------------------------------------------
(* C8 - filled and empty circles                                           *)

\* C8: the pixels of the panel written by circle(cx, cy, r, c, fill=True)
\* include those written by circle(cx, cy, r, c, fill=False); for r = 0 and
\* a centre on the panel both are the pixel (cx, cy) alone.
C8_FilledCircleCoversOutline ==
    last.op = "circle"
    => LET filled == PanelPixels(circle(last.a[1], last.a[2], last.a[3], last.c, TRUE).w)
           outline == PanelPixels(circle(last.a[1], last.a[2], last.a[3], last.c, FALSE).w)
       IN  /\ PanelPixels(wire) = IF last.a[4] = 1 THEN filled ELSE outline
           /\ outline \subseteq filled
           /\ (last.a[3] = 0 /\ OnPanel(last.a[1], last.a[2]))
                 => (filled = {<<last.a[1], last.a[2]>>}
                     /\ outline = {<<last.a[1], last.a[2]>>})

\* The same on a panel without offset, where pixel and set_window address
\* the same memory.
CircleCoversOutlineWithoutOffset ==
    (xstart = 0 /\ ystart = 0) => C8_FilledCircleCoversOutline

----------------------------------------------------------------------------
(* C9 - filled triangles                                                   *)

Vertices(a) == {<<a[1], a[2]>>, <<a[3], a[4]>>, <<a[5], a[6]>>}

Collinear(a) ==
    (a[3] - a[1]) * (a[6] - a[2]) - (a[4] - a[2]) * (a[5] - a[1]) = 0

\* The pixels <<x, y>> of the spans fill_triangle asks hline for.
SpanPixels ==
    UNION {{<<x, calls[i].a[3]>> :
                x \in Min(calls[i].a[1], calls[i].a[2])..Max(calls[i].a[1], calls[i].a[2])} :
           i \in {j \in 1..Len(calls) : calls[j].f = "hline"}}

\* p is within one step of the segment from the lowest to the highest of
\* the vertices a, which are collinear.
NearSegment(p, a) ==
    LET lo == CHOOSE v \in Vertices(a) : \A u \in Vertices(a) : v[2] <= u[2]
        hi == CHOOSE v \in Vertices(a) : \A u \in Vertices(a) : v[2] >= u[2]
        slack == IF last.o = {} THEN 0 ELSE 1
    IN  /\ lo[2] <= p[2] /\ p[2] <= hi[2]
        /\ \E v \in Vertices(a) : v[1] - slack <= p[1]
        /\ \E v \in Vertices(a) : p[1] <= v[1] + slack
        /\ Abs((p[1] - lo[1]) * (hi[2] - lo[2]) - (p[2] - lo[2]) * (hi[1] - lo[1]))
              <= Abs(hi[1] - lo[1]) + Abs(hi[2] - lo[2])

\* C9: a filled triangle never divides by zero, whatever its vertices; an
\* edge of height zero has slope 0, so that a triangle whose vertices all
\* have the same y is one span of one pixel; and the spans of three
\* collinear vertices stay within one step of the segment joining them.
C9_FillTriangleNoDivisionFault ==
    (last.op = "triangle" /\ last.a[7] = 1)
    => /\ err = "none"
       /\ Cardinality({i \in 1..Len(calls) : calls[i].f = "hline"})
             = Max(Max(last.a[2], last.a[4]), last.a[6])
               - Min(Min(last.a[2], last.a[4]), last.a[6]) + 1
       /\ Collinear(last.a) => \A p \in SpanPixels : NearSegment(p, last.a)
       /\ (last.a[2] = last.a[4] /\ last.a[4] = last.a[6])
             => SpanPixels = {<<last.a[1], last.a[2]>>}

C9_Witness ==
    /\ last.op = "triangle" /\ last.a[7] = 1
    /\ Collinear(last.a)
    /\ last.a[2] = last.a[4] /\ last.a[6] > last.a[4]
    /\ Cardinality(SpanPixels) > 1
    /\ err = "none"

----------------------------------------------------------------------------
(* C10 - lines                                                             *)

GeneralLine ==
    last.op = "line" /\ last.a[1] # last.a[3] /\ last.a[2] # last.a[4]

\* C10: a line with x0 # x1 and y0 # y1 ends after max(|x1-x0|, |y1-y0|) + 1
\* calls of pixel and nothing else, the first at (x0, y0), the last at
\* (x1, y1), each at most 1 away from the one before in x and in y.
C10_LineOnePixelPerStep ==
    GeneralLine
    => /\ err = "none"
       /\ Len(calls) = Max(Abs(last.a[3] - last.a[1]), Abs(last.a[4] - last.a[2])) + 1
       /\ \A i \in 1..Len(calls) : calls[i].f = "pixel"
       /\ calls[1].a = <<last.a[1], last.a[2]>>
       /\ calls[Len(calls)].a = <<last.a[3], last.a[4]>>
       /\ \A i \in 1..(Len(calls) - 1) :
             /\ Abs(calls[i + 1].a[1] - calls[i].a[1]) <= 1
             /\ Abs(calls[i + 1].a[2] - calls[i].a[2]) <= 1

C10_Witness ==
    /\ GeneralLine
    /\ last.a = <<-1, 3, 3, 1>>
    /\ Len(calls) = 5
    /\ wire # <<>>

----------------------------------------------------------------------------
(* C11 - the window is sent again by every call                            *)

StreamingOps == {"pixel", "hline", "vline", "fill", "char"}

\* The writes sp[i..i+4] are column address set with 4 bytes, row address
\* set with 4 bytes, and memory write.
IsWindowAt(sp, i) ==
    /\ i + 4 <= Len(sp)
    /\ sp[i] = Cmd(ST77XX_CASET)
    /\ sp[i + 1][1] = 1 /\ Len(sp[i + 1][2]) = 4
    /\ sp[i + 2] = Cmd(ST77XX_RASET)
    /\ sp[i + 3][1] = 1 /\ Len(sp[i + 3][2]) = 4
    /\ sp[i + 4] = Cmd(ST77XX_RAMWR)

\* From write i on, sp is made of window sequences, each followed at once
\* by one or more data writes; inBurst says that write i may go on with the
\* data of the window before it.
RECURSIVE Framed(_, _, _)
Framed(sp, i, inBurst) ==
    IF i > Len(sp) THEN TRUE
    ELSE IF sp[i][1] = 0
         THEN /\ IsWindowAt(sp, i)
              /\ i + 5 <= Len(sp)
              /\ sp[i + 5][1] = 1
              /\ Framed(sp, i + 6, TRUE)
         ELSE inBurst /\ Framed(sp, i + 1, TRUE)

CommandsOf(sp) == SelectSeq(sp, LAMBDA wr : wr[1] = 0)

\* C11: the writes of every drawing call are window sequences (column
\* address set and 4 bytes, row address set and 4 bytes, memory write), each
\* followed at once by its pixel data, so that no pixel data is on the wire
\* without the window of the same call before it; a call of pixel, hline,
\* vline, fill or char that writes anything writes exactly one window, at
\* the start, and then only pixel data.
C11_WindowSentByEveryCall ==
    last.op \in DrawingOps
    => LET sp == SpiWrites(wire)
       IN  /\ Framed(sp, 1, FALSE)
           /\ (last.op \in StreamingOps /\ sp # <<>>)
                 => /\ IsWindowAt(sp, 1)
                    /\ Len(CommandsOf(sp)) = 3
                    /\ Len(sp) >= 6

C11_Witness ==
    /\ last.op = "fill"
    /\ IsWindowAt(SpiWrites(wire), 1)
    /\ Len(SpiWrites(wire)) = 5 + height
    /\ \A i \in 6..(5 + height) : SpiWrites(wire)[i] = Data(Repeat(last.c, width))

----------------------------------------------------------------------------
(* C12 - the offset given to the constructor                               *)

ExplicitOffset == req.op = "__init__" /\ req.a[3] # None /\ req.a[4] # None
DefaultOffset == req.op = "__init__" /\ req.a[3] = None /\ req.a[4] = None

\* C12: a driver constructed with explicit xstart and ystart, 0 included,
\* has the offset (xstart, ystart); one constructed without has the offset
\* of its size, (52, 40) for 135x240 and (0, 0) otherwise; the offset is the
\* same after any sequence of calls.
C12_ExplicitOffsetIsKept ==
    /\ ExplicitOffset => <<xstart, ystart>> = <<req.a[3], req.a[4]>>
    /\ DefaultOffset
         => <<xstart, ystart>> =
               IF <<req.a[1], req.a[2]>> = <<135, 240>> THEN <<52, 40>> ELSE <<0, 0>>

\* What holds of the constructor: two explicit non-zero values are the
\* offset, without them it is the offset of the size, and a 0 for either
\* one makes the constructor take the offset of the size instead.
OffsetUnlessZero ==
    req.op = "__init__"
    => <<xstart, ystart>> =
          IF ExplicitOffset /\ req.a[3] # 0 /\ req.a[4] # 0
          THEN <<req.a[3], req.a[4]>>
          ELSE IF <<req.a[1], req.a[2]>> = <<135, 240>> THEN <<52, 40>> ELSE <<0, 0>>

\* No call changes the offset.
OffsetNeverChanges == [][xstart' = xstart /\ ystart' = ystart]_vars
====
